---- MODULE Spec2Model ----
(***************************************************************************)
(* Worker execution core of machinery (src/v1/worker.go).                  *)
(*                                                                         *)
(* Worker.Process is modelled one backend / broker call per step, run by   *)
(* several concurrent goroutines of the broker adapter; Worker.Launch and  *)
(* Worker.LaunchAsync are modelled goroutine by goroutine with the         *)
(* unbuffered error channel and the one-slot signal channel.  The result   *)
(* backend, the broker, the registry, tasks.New / task.Call, SendTask and  *)
(* retry.FibonacciNext live outside src/ and are modelled from spec.md.    *)
(***************************************************************************)
EXTENDS Integers, Sequences, FiniteSets, Bags, TLC

(***************************************************************************)
(* Bounds of the model.                                                    *)
(***************************************************************************)
\* Largest RetryCount a delivered signature starts with.
MaxRetry == 1
\* Backend or publish calls that may fail in one behaviour.
MaxFailures == 1
\* Redeliveries by the broker after Process returned an error.
MaxRedeliver == 1
\* The clock time.Now() reads runs from 0 to MaxTime.
MaxTime == 1
\* Interrupt / terminate signals the operating system sends.
MaxSignals == 2
\* Times StartConsuming returns although nobody asked it to stop.
MaxConsumeReturns == 1

(***************************************************************************)
(* Values.  tasks.Arg and tasks.TaskResult are {Type, Value}; the Value of *)
(* every type is written as a string, as on the wire.                      *)
(***************************************************************************)
Numerals == <<"1", "2", "3", "4", "5", "6", "7", "8", "9">>

IntValue(s) == CHOOSE i \in 1..Len(Numerals) : Numerals[i] = s

Arg(type, value) == [Type |-> type, Value |-> value]

IntArg(i) == Arg("int", Numerals[i])

NoETA == -1

\* A tasks.Signature.  ChordCallback is <<>> for nil and <<sig>> otherwise.
Signature(uuid, name, args, retryCount, retryTimeout, immutable, onSuccess, onError) ==
    [UUID |-> uuid, Name |-> name, Args |-> args,
     RetryCount |-> retryCount, RetryTimeout |-> retryTimeout, ETA |-> NoETA,
     Immutable |-> immutable, GroupUUID |-> "", GroupTaskCount |-> 0,
     OnSuccess |-> onSuccess, OnError |-> onError, ChordCallback |-> <<>>]

Leaf(uuid, name, args) == Signature(uuid, name, args, 0, 0, FALSE, <<>>, <<>>)

InGroup(sig, group, count, chord) ==
    [sig EXCEPT !.GroupUUID = group, !.GroupTaskCount = count, !.ChordCallback = chord]

(***************************************************************************)
(* The registry, argument binding and the callables (server.RegisterTask,  *)
(* tasks.New, task.Call): the tasks of the scenarios of spec.md section 8. *)
(***************************************************************************)
RegisteredTasks == {"add", "flaky", "log"}

IsTaskRegistered(name) == name \in RegisteredTasks

\* tasks.New: are the args assignable to the parameters of the callable?
\* add(a, b int), flaky(), log(args ...interface{}).
BindError(name, args) ==
    CASE name = "add" ->
           IF Len(args) = 2 /\ \A i \in 1..Len(args) : args[i].Type = "int"
           THEN "" ELSE "bind: add wants (int, int)"
      [] name = "flaky" -> IF Len(args) = 0 THEN "" ELSE "bind: flaky wants ()"
      [] OTHER -> ""

\* task.Call: the possible outcomes, {err, results}; err = "" is nil.
CallOutcomes(name, args) ==
    CASE name = "add" ->
           {[err |-> "",
             results |-> <<IntArg(IntValue(args[1].Value) + IntValue(args[2].Value))>>]}
      [] name = "flaky" ->
           {[err |-> "boom", results |-> <<>>],
            [err |-> "", results |-> <<IntArg(1)>>]}
      [] OTHER -> {[err |-> "", results |-> <<>>]}

(***************************************************************************)
(* retry.FibonacciNext: the next Fibonacci number greater than start.      *)
(***************************************************************************)
RECURSIVE FibonacciFrom(_, _, _)
FibonacciFrom(a, b, start) ==
    IF b > start THEN b ELSE FibonacciFrom(b, a + b, start)

FibonacciNext(start) == FibonacciFrom(0, 1, start)

(***************************************************************************)
(* Workloads: what the broker holds when the worker starts.                *)
(***************************************************************************)
\* The members of the group in the group workload, in member order.
MemberUUIDs == <<"m1", "m2">>

GroupSize == Len(MemberUUIDs)

SuccessTasks == <<Leaf("s1", "log", <<Arg("string", "got")>>), Leaf("s2", "ghost", <<>>)>>

ErrorTasks == <<Leaf("e1", "log", <<Arg("string", "ctx")>>), Leaf("e2", "ghost", <<>>)>>

GoodArgs == <<IntArg(2), IntArg(3)>>

BadArgs == <<Arg("string", "oops")>>

\* One signature with OnSuccess and OnError successors.
SingleWorkloads ==
    { Signature("t1", name, args, retryCount, retryCount, immutable,
                SuccessTasks, ErrorTasks) :
        name \in {"add"}, args \in {GoodArgs, BadArgs},
        retryCount \in 0..MaxRetry, immutable \in BOOLEAN }
    \cup
    { Signature("t1", name, args, retryCount, retryCount, FALSE,
                SuccessTasks, ErrorTasks) :
        name \in {"flaky"}, args \in {<<>>, BadArgs}, retryCount \in 0..MaxRetry }
    \cup
    { Signature("t1", "ghost", GoodArgs, MaxRetry, 0, FALSE, SuccessTasks, ErrorTasks) }

ChordCallbacks ==
    { <<>> } \cup
    { << [Leaf("c1", "log", <<Arg("string", "sum")>>) EXCEPT !.Immutable = immutable] >> :
        immutable \in BOOLEAN }

\* Member i of the group is add(i, i); the first member may also be flaky()
\* with no retry left (retries are exercised by the single signatures).
MemberChoices(i) ==
    { Signature(MemberUUIDs[i], "add", <<IntArg(i), IntArg(i)>>, 0, 0, FALSE, <<>>, <<>>) }
    \cup
    (IF i = 1
     THEN { Signature(MemberUUIDs[i], "flaky", <<>>, 0, 0, FALSE, <<>>, <<>>) }
     ELSE {})

GroupUUIDs == {"g1"}

GroupMembers(group) == { MemberUUIDs[i] : i \in 1..GroupSize }

GroupWorkloads ==
    { [i \in 1..GroupSize |-> InGroup(members[i], "g1", GroupSize, chord)] :
        members \in { f \in [1..GroupSize -> UNION { MemberChoices(i) : i \in 1..GroupSize }] :
                        \A i \in 1..GroupSize : f[i] \in MemberChoices(i) },
        chord \in ChordCallbacks }

RECURSIVE SeqToBag(_)
SeqToBag(seq) ==
    IF seq = <<>> THEN EmptyBag ELSE SetToBag({Head(seq)}) (+) SeqToBag(Tail(seq))

Workloads ==
    { SetToBag({sig}) : sig \in SingleWorkloads } \cup
    { SeqToBag(group) : group \in GroupWorkloads }

(***************************************************************************)
(* State.                                                                  *)
(***************************************************************************)
VARIABLES
    queue,           \* the broker's queue: a bag of published signatures
    proc,            \* proc[w]: the Process call goroutine w of the broker runs
    taskState,       \* the backend's rows: UUID -> [State, Results, Error]
    chordTriggered,  \* the backend's GroupMeta: GroupUUID -> ChordTriggered
    purgeCount,      \* PurgeGroupMeta calls so far, per GroupUUID
    amqp,            \* hasAMQPBackend()
    now,             \* the clock time.Now() reads
    failures,        \* backend and publish calls that failed so far
    redelivered,     \* deliveries the broker repeated so far
    chordSends,      \* history: every SendTask(ChordCallback) and what it saw
    history,         \* history: call errors, republishes and lost chords, in order
    broker,          \* "idle", "consuming", "stopping" or "stopped"
    consumeReturns,  \* unrequested returns of StartConsuming so far
    consumer,        \* the consumer goroutine of LaunchAsync
    watcher,         \* the signal goroutine of LaunchAsync
    quitter,         \* the goroutine the first signal starts (Quit, then send)
    sigChan,         \* signals buffered in sig (capacity 1)
    signalsSent,     \* signals the operating system has sent
    signalsReceived, \* the counter of the signal goroutine
    launch           \* Launch: its position and what it returned

processVars == <<queue, proc, taskState, chordTriggered, purgeCount, amqp, now,
                 failures, redelivered, chordSends, history>>

launchVars == <<broker, consumeReturns, consumer, watcher, quitter, sigChan,
                signalsSent, signalsReceived, launch>>

vars == <<processVars, launchVars>>

\* worker.Concurrency: the goroutines the broker adapter calls Process from.
Workers == {1, 2}

Nil == "nil"

IdleProc ==
    [pc |-> "idle", sig |-> <<>>, msg |-> <<>>, results |-> <<>>, err |-> "",
     fromBind |-> FALSE, idx |-> 0, ret |-> Nil, deferPurge |-> FALSE,
     chord |-> <<>>, taskStates |-> <<>>, t0 |-> 0, trace |-> <<>>]

Event(kind, what, ok, sig) == [kind |-> kind, what |-> what, ok |-> ok, sig |-> sig]

\* An entry of history: what happened, to which UUID, with which RetryCount.
Past(kind, uuid, count) == [kind |-> kind, uuid |-> uuid, count |-> count]

(***************************************************************************)
(* The result backend (spec.md 4.3, 4.5, 6): one row per UUID, each write  *)
(* replaces the row; GroupMeta with a compare-and-set ChordTriggered flag. *)
(***************************************************************************)
SetState(rows, uuid, state, results, error) ==
    [u \in DOMAIN rows \cup {uuid} |->
        IF u = uuid THEN [State |-> state, Results |-> results, Error |-> error]
        ELSE rows[u]]

StateOf(rows, uuid) ==
    IF uuid \in DOMAIN rows THEN rows[uuid]
    ELSE [State |-> "PENDING", Results |-> <<>>, Error |-> ""]

IsSuccess(row) == row.State = "SUCCESS"

IsCompleted(row) == row.State \in {"SUCCESS", "FAILURE"}

\* groupCompleted(groupUUID, n): all n members are in a terminal state.
GroupCompleted(rows, group, count) ==
    Cardinality({u \in GroupMembers(group) : IsCompleted(StateOf(rows, u))}) = count

\* groupTaskStates(groupUUID, n): the members' rows in member order.
GroupTaskStates(rows, group, count) ==
    [i \in 1..count |-> StateOf(rows, MemberUUIDs[i])]

\* Calls that can fail still fail while the failure budget lasts.
Outcomes == IF failures < MaxFailures THEN {TRUE, FALSE} ELSE {TRUE}

Failed(ok) == failures' = failures + (IF ok THEN 0 ELSE 1)

(***************************************************************************)
(* Server.SendTask (spec.md 4.4): publishes the signature on the broker.   *)
(***************************************************************************)
SendTask(q, sig, ok) == IF ok THEN q (+) SetToBag({sig}) ELSE q

(***************************************************************************)
(* Worker.Process, one goroutine w of the broker adapter per delivery.     *)
(***************************************************************************)
Log(p, event) == [p EXCEPT !.trace = Append(@, event)]

Return(p, ret) == [p EXCEPT !.pc = "return", !.ret = ret]

\* A return of taskSucceeded after line 224: the deferred purge runs first.
Exit(p, ret) ==
    IF p.deferPurge THEN [p EXCEPT !.pc = "PurgeGroupMeta", !.ret = ret]
    ELSE Return(p, ret)

\* The broker adapter hands a queued signature to Process, on the first of
\* its goroutines that is free.
Deliver(w) ==
    /\ broker = "consuming"
    /\ proc[w].pc = "idle"
    /\ \A v \in Workers : v < w => proc[v].pc # "idle"
    /\ \E sig \in BagToSet(queue) :
          /\ queue' = queue (-) SetToBag({sig})
          /\ proc' = [proc EXCEPT ![w] =
                        [IdleProc EXCEPT !.pc = "Process", !.sig = sig,
                                         !.msg = <<sig>>, !.t0 = now]]
    /\ UNCHANGED <<taskState, chordTriggered, purgeCount, amqp, now, failures,
                   redelivered, chordSends, history, launchVars>>

\* Lines 113, 127, 148, 173 and 281: the err != nil test after a state write.
WriteFailedMutant(ok) == FALSE

WriteFailed(ok) == ~ok

\* Lines 200 and 296: what SendTask returns for a successor is dropped, the
\* loop goes on to the next successor.
StopAtSendErrorMutant(ok) == ~ok

StopAtSendError(ok) == FALSE

\* Lines 103-110: an unregistered task is acknowledged and nothing else.
LookupMutant(name) == "SetStateReceived"

Lookup(name) == IF ~IsTaskRegistered(name) THEN "return" ELSE "SetStateReceived"

ProcessLookup(w) ==
    /\ proc[w].pc = "Process"
    /\ proc' = [proc EXCEPT ![w] =
                  IF Lookup(proc[w].sig.Name) = "return" THEN Return(@, Nil)
                  ELSE [@ EXCEPT !.pc = "SetStateReceived"]]
    /\ UNCHANGED <<queue, taskState, chordTriggered, purgeCount, amqp, now,
                   failures, redelivered, chordSends, history, launchVars>>

\* Lines 117-124: a bind error goes to taskFailed, whatever RetryCount is.
AfterBindMutant(sig, bindErr) ==
    IF bindErr = "" THEN "SetStateStarted"
    ELSE IF sig.RetryCount > 0 THEN "SetStateRetry" ELSE "SetStateFailure"

AfterBind(sig, bindErr) ==
    IF bindErr # "" THEN "SetStateFailure" ELSE "SetStateStarted"

\* Lines 113-124: SetStateReceived, then tasks.New.
ProcessReceived(w) ==
    /\ proc[w].pc = "SetStateReceived"
    /\ \E ok \in Outcomes :
          LET p == Log(proc[w], Event("write", "RECEIVED", ok, <<>>))
              bindErr == BindError(p.sig.Name, p.sig.Args)
          IN /\ Failed(ok)
             /\ taskState' = IF ok THEN SetState(taskState, p.sig.UUID, "RECEIVED", <<>>, "")
                             ELSE taskState
             /\ proc' = [proc EXCEPT ![w] =
                           IF WriteFailed(ok) THEN Return(p, "Set state received error")
                           ELSE [p EXCEPT !.pc = AfterBind(p.sig, bindErr),
                                          !.err = bindErr,
                                          !.fromBind = (bindErr # "")]]
    /\ UNCHANGED <<queue, chordTriggered, purgeCount, amqp, now, redelivered,
                   chordSends, history, launchVars>>

\* Lines 126-129: SetStateStarted.
StartedStateMutant == "RECEIVED"

StartedState == "STARTED"

ProcessStarted(w) ==
    /\ proc[w].pc = "SetStateStarted"
    /\ \E ok \in Outcomes :
          LET p == Log(proc[w], Event("write", StartedState, ok, <<>>))
          IN /\ Failed(ok)
             /\ taskState' = IF ok THEN SetState(taskState, p.sig.UUID, StartedState, <<>>, "")
                             ELSE taskState
             /\ proc' = [proc EXCEPT ![w] =
                           IF WriteFailed(ok) THEN Return(p, "Set state started error")
                           ELSE [p EXCEPT !.pc = "Call"]]
    /\ UNCHANGED <<queue, chordTriggered, purgeCount, amqp, now, redelivered,
                   chordSends, history, launchVars>>

\* Lines 133-140: a call error is retried while RetryCount > 0.
AfterCallErrorMutant(sig) == IF sig.RetryCount >= 0 THEN "SetStateRetry" ELSE "SetStateFailure"

AfterCallError(sig) == IF sig.RetryCount > 0 THEN "SetStateRetry" ELSE "SetStateFailure"

\* Lines 131-142: task.Call and the choice of taskRetry, taskFailed, taskSucceeded.
ProcessCall(w) ==
    /\ proc[w].pc = "Call"
    /\ \E out \in CallOutcomes(proc[w].sig.Name, proc[w].sig.Args) :
          LET p == Log(proc[w], Event("call", "Call", out.err = "", <<>>))
          IN /\ proc' = [proc EXCEPT ![w] =
                           IF out.err # ""
                           THEN [p EXCEPT !.pc = AfterCallError(p.sig), !.err = out.err]
                           ELSE [p EXCEPT !.pc = "SetStateSuccess", !.results = out.results]]
             /\ history' = IF out.err # ""
                            THEN Append(history, Past("callError", p.sig.UUID, p.sig.RetryCount))
                            ELSE history
    /\ UNCHANGED <<queue, taskState, chordTriggered, purgeCount, amqp, now,
                   failures, redelivered, chordSends, launchVars>>

\* Lines 152-160: the signature taskRetry republishes, t being time.Now().
RetrySignatureMutant(sig, t) ==
    [sig EXCEPT !.RetryTimeout = FibonacciNext(@),
                !.ETA = t + FibonacciNext(sig.RetryTimeout)]

RetrySignature(sig, t) ==
    [sig EXCEPT !.RetryCount = @ - 1,
                !.RetryTimeout = FibonacciNext(@),
                !.ETA = t + FibonacciNext(sig.RetryTimeout)]

\* Lines 146-150: taskRetry, SetStateRetry.
ProcessRetry(w) ==
    /\ proc[w].pc = "SetStateRetry"
    /\ \E ok \in Outcomes :
          LET p == Log(proc[w], Event("write", "RETRY", ok, <<>>))
          IN /\ Failed(ok)
             /\ taskState' = IF ok THEN SetState(taskState, p.sig.UUID, "RETRY", <<>>, "")
                             ELSE taskState
             /\ proc' = [proc EXCEPT ![w] =
                           IF WriteFailed(ok) THEN Return(p, "Set state retry error")
                           ELSE [p EXCEPT !.pc = "SendRetry"]]
    /\ UNCHANGED <<queue, chordTriggered, purgeCount, amqp, now, redelivered,
                   chordSends, history, launchVars>>

\* Lines 152-166: taskRetry changes the signature and sends it back to the
\* queue.  time.Now() reads a clock that never runs backwards.
ProcessSendRetry(w) ==
    /\ proc[w].pc = "SendRetry"
    /\ \E ok \in Outcomes, t \in now..MaxTime :
          LET sig == RetrySignature(proc[w].sig, t)
              p == Log([proc[w] EXCEPT !.sig = sig], Event("send", "Retry", ok, <<sig>>))
          IN /\ Failed(ok)
             /\ now' = t
             /\ queue' = SendTask(queue, sig, ok)
             /\ history' = IF ok THEN Append(history, Past("republish", sig.UUID, sig.RetryCount))
                            ELSE history
             /\ proc' = [proc EXCEPT ![w] = Return(p, IF ok THEN Nil ELSE "publish error")]
    /\ UNCHANGED <<taskState, chordTriggered, purgeCount, amqp, redelivered,
                   chordSends, launchVars>>

\* Lines 122-123 and 139: what Process returns once taskFailed returned ret.
FailedReturnMutant(p, ret) == Nil

FailedReturn(p, ret) == IF p.fromBind THEN p.err ELSE ret

\* Lines 279-283: taskFailed, SetStateFailure.
ProcessFailure(w) ==
    /\ proc[w].pc = "SetStateFailure"
    /\ \E ok \in Outcomes :
          LET p == Log(proc[w], Event("write", "FAILURE", ok, <<>>))
          IN /\ Failed(ok)
             /\ taskState' = IF ok THEN SetState(taskState, p.sig.UUID, "FAILURE", <<>>, p.err)
                             ELSE taskState
             /\ proc' = [proc EXCEPT ![w] =
                           IF WriteFailed(ok) THEN Return(p, FailedReturn(p, "Set state failure error"))
                           ELSE IF Len(p.sig.OnError) = 0 THEN Return(p, FailedReturn(p, Nil))
                           ELSE [p EXCEPT !.pc = "OnError", !.idx = 1]]
    /\ UNCHANGED <<queue, chordTriggered, purgeCount, amqp, now, redelivered,
                   chordSends, history, launchVars>>

\* Lines 290-294: the error message first, then the successor's own args.
ErrorArgsMutant(errMsg, errorTask) == Append(errorTask.Args, Arg("string", errMsg))

ErrorArgs(errMsg, errorTask) == <<Arg("string", errMsg)>> \o errorTask.Args

\* Lines 288-298: one turn of the loop over signature.OnError.
ProcessOnError(w) ==
    /\ proc[w].pc = "OnError"
    /\ \E ok \in Outcomes :
          LET errorTask == [proc[w].sig.OnError[proc[w].idx] EXCEPT
                              !.Args = ErrorArgs(proc[w].err, proc[w].sig.OnError[proc[w].idx])]
              p == Log(proc[w], Event("send", "OnError", ok, <<errorTask>>))
          IN /\ Failed(ok)
             /\ queue' = SendTask(queue, errorTask, ok)
             /\ proc' = [proc EXCEPT ![w] =
                           IF StopAtSendError(ok) THEN Return(p, "publish error")
                           ELSE IF p.idx = Len(p.sig.OnError) THEN Return(p, FailedReturn(p, Nil))
                           ELSE [p EXCEPT !.idx = @ + 1]]
    /\ UNCHANGED <<taskState, chordTriggered, purgeCount, amqp, now, redelivered,
                   chordSends, history, launchVars>>

\* Lines 203-206: after the success callbacks, a group member goes on.
AfterOnSuccessMutant(p) == Return(p, Nil)

AfterOnSuccess(p) ==
    IF p.sig.GroupUUID = "" THEN Return(p, Nil) ELSE [p EXCEPT !.pc = "GroupCompleted"]

\* Lines 171-175: taskSucceeded, SetStateSuccess.
ProcessSuccess(w) ==
    /\ proc[w].pc = "SetStateSuccess"
    /\ \E ok \in Outcomes :
          LET p == Log(proc[w], Event("write", "SUCCESS", ok, <<>>))
          IN /\ Failed(ok)
             /\ taskState' = IF ok THEN SetState(taskState, p.sig.UUID, "SUCCESS", p.results, "")
                             ELSE taskState
             /\ proc' = [proc EXCEPT ![w] =
                           IF WriteFailed(ok) THEN Return(p, "Set state success error")
                           ELSE IF Len(p.sig.OnSuccess) = 0 THEN AfterOnSuccess(p)
                           ELSE [p EXCEPT !.pc = "OnSuccess", !.idx = 1]]
    /\ UNCHANGED <<queue, chordTriggered, purgeCount, amqp, now, redelivered,
                   chordSends, history, launchVars>>

\* Lines 190-198: the parent's results follow the successor's own args.
SuccessArgsMutant(parent, successTask, taskResults) == successTask.Args \o taskResults

SuccessArgs(parent, successTask, taskResults) ==
    IF parent.Immutable = FALSE THEN successTask.Args \o taskResults
    ELSE successTask.Args

\* Lines 189-201: one turn of the loop over signature.OnSuccess.
ProcessOnSuccess(w) ==
    /\ proc[w].pc = "OnSuccess"
    /\ \E ok \in Outcomes :
          LET successTask == [proc[w].sig.OnSuccess[proc[w].idx] EXCEPT
                                !.Args = SuccessArgs(proc[w].sig,
                                                     proc[w].sig.OnSuccess[proc[w].idx],
                                                     proc[w].results)]
              p == Log(proc[w], Event("send", "OnSuccess", ok, <<successTask>>))
          IN /\ Failed(ok)
             /\ queue' = SendTask(queue, successTask, ok)
             /\ proc' = [proc EXCEPT ![w] =
                           IF StopAtSendError(ok) THEN Return(p, "publish error")
                           ELSE IF p.idx = Len(p.sig.OnSuccess) THEN AfterOnSuccess(p)
                           ELSE [p EXCEPT !.idx = @ + 1]]
    /\ UNCHANGED <<taskState, chordTriggered, purgeCount, amqp, now, redelivered,
                   chordSends, history, launchVars>>

\* Lines 208-230: GroupCompleted, the deferred purge, and the nil ChordCallback.
ProcessGroupCompleted(w) ==
    /\ proc[w].pc = "GroupCompleted"
    /\ \E ok \in Outcomes :
          LET p == Log(proc[w], Event("group", "GroupCompleted", ok, <<>>))
              groupCompleted ==
                  GroupCompleted(taskState, p.sig.GroupUUID, p.sig.GroupTaskCount)
              q == [p EXCEPT !.deferPurge = amqp]
          IN /\ Failed(ok)
             /\ proc' = [proc EXCEPT ![w] =
                           IF ~ok THEN Return(p, "Group completed error")
                           ELSE IF ~groupCompleted THEN Return(p, Nil)
                           ELSE IF p.sig.ChordCallback = <<>> THEN Exit(q, Nil)
                           ELSE [q EXCEPT !.pc = "TriggerChord"]]
    /\ UNCHANGED <<queue, taskState, chordTriggered, purgeCount, amqp, now,
                   redelivered, chordSends, history, launchVars>>

\* Lines 238-241: only the caller TriggerChord answered true goes on.
AfterTriggerChordMutant(shouldTrigger) == "GroupTaskStates"

AfterTriggerChord(shouldTrigger) == IF ~shouldTrigger THEN "return" ELSE "GroupTaskStates"

\* Lines 232-241: TriggerChord, the backend's compare-and-set.
ProcessTriggerChord(w) ==
    /\ proc[w].pc = "TriggerChord"
    /\ \E ok \in Outcomes :
          LET p == Log(proc[w], Event("group", "TriggerChord", ok, <<>>))
              shouldTrigger == ~chordTriggered[p.sig.GroupUUID]
          IN /\ Failed(ok)
             /\ chordTriggered' = IF ok THEN [chordTriggered EXCEPT ![p.sig.GroupUUID] = TRUE]
                                  ELSE chordTriggered
             /\ proc' = [proc EXCEPT ![w] =
                           IF ~ok THEN Exit(p, "Trigger chord error")
                           ELSE IF AfterTriggerChord(shouldTrigger) = "return" THEN Exit(p, Nil)
                           ELSE [p EXCEPT !.pc = "GroupTaskStates"]]
    /\ UNCHANGED <<queue, taskState, purgeCount, amqp, now, redelivered,
                   chordSends, history, launchVars>>

RECURSIVE GroupResults(_)
GroupResults(taskStates) ==
    IF taskStates = <<>> THEN <<>>
    ELSE Head(taskStates).Results \o GroupResults(Tail(taskStates))

\* Lines 253-257: one member that is not SUCCESS and the chord is not sent.
AllSucceededMutant(taskStates) == TRUE

AllSucceeded(taskStates) == \A i \in 1..Len(taskStates) : IsSuccess(taskStates[i])

\* Lines 258-266: the members' results follow the chord callback's own args.
ChordSignature(chord, taskStates) ==
    IF chord.Immutable = FALSE THEN [chord EXCEPT !.Args = @ \o GroupResults(taskStates)]
    ELSE chord

\* Lines 244-250: an error of GroupTaskStates is not passed on.
GroupTaskStatesErrorMutant == "Group task states error"

GroupTaskStatesError == Nil

\* Lines 243-267: GroupTaskStates and the loop over the members' states.
ProcessGroupTaskStates(w) ==
    /\ proc[w].pc = "GroupTaskStates"
    /\ \E ok \in Outcomes :
          LET p == Log(proc[w], Event("group", "GroupTaskStates", ok, <<>>))
              taskStates ==
                  GroupTaskStates(taskState, p.sig.GroupUUID, p.sig.GroupTaskCount)
          IN /\ Failed(ok)
             /\ history' = IF ok THEN history
                            ELSE Append(history, Past("chordLost", p.sig.GroupUUID, 0))
             /\ proc' = [proc EXCEPT ![w] =
                           IF ~ok THEN Exit(p, GroupTaskStatesError)
                           ELSE IF ~AllSucceeded(taskStates) THEN Exit(p, Nil)
                           ELSE [p EXCEPT !.pc = "SendChord",
                                          !.taskStates = taskStates,
                                          !.chord = <<ChordSignature(p.sig.ChordCallback[1],
                                                                     taskStates)>>]]
    /\ UNCHANGED <<queue, taskState, chordTriggered, purgeCount, amqp, now,
                   redelivered, chordSends, launchVars>>

\* Lines 269-275: the chord callback is sent.
ProcessSendChord(w) ==
    /\ proc[w].pc = "SendChord"
    /\ \E ok \in Outcomes :
          LET p == Log(proc[w], Event("send", "Chord", ok, proc[w].chord))
              group == p.sig.GroupUUID
          IN /\ Failed(ok)
             /\ queue' = SendTask(queue, p.chord[1], ok)
             /\ chordSends' = Append(chordSends,
                    [group |-> group, by |-> p.sig.UUID, sig |-> p.chord[1],
                     taskStates |-> p.taskStates,
                     allSuccess |-> \A u \in GroupMembers(group) :
                                       IsSuccess(StateOf(taskState, u))])
             /\ proc' = [proc EXCEPT ![w] = Exit(p, IF ok THEN Nil ELSE "publish error")]
    /\ UNCHANGED <<taskState, chordTriggered, purgeCount, amqp, now, redelivered,
                   history, launchVars>>

\* Line 224: the deferred PurgeGroupMeta runs when taskSucceeded returns.
ProcessPurgeGroupMeta(w) ==
    /\ proc[w].pc = "PurgeGroupMeta"
    /\ purgeCount' = [purgeCount EXCEPT ![proc[w].sig.GroupUUID] = @ + 1]
    /\ proc' = [proc EXCEPT ![w] =
                  Return(Log(@, Event("group", "PurgeGroupMeta", TRUE, <<>>)), @.ret)]
    /\ UNCHANGED <<queue, taskState, chordTriggered, amqp, now, failures,
                   redelivered, chordSends, history, launchVars>>

\* Process has returned: the broker acknowledges the delivery.
Ack(w) ==
    /\ proc[w].pc = "return"
    /\ proc' = [proc EXCEPT ![w] = IdleProc]
    /\ UNCHANGED <<queue, taskState, chordTriggered, purgeCount, amqp, now,
                   failures, redelivered, chordSends, history, launchVars>>

\* Process has returned an error: the broker delivers the message again.
Redeliver(w) ==
    /\ proc[w].pc = "return"
    /\ proc[w].ret # Nil
    /\ redelivered < MaxRedeliver
    /\ redelivered' = redelivered + 1
    /\ queue' = queue (+) SetToBag({proc[w].msg[1]})
    /\ proc' = [proc EXCEPT ![w] = IdleProc]
    /\ UNCHANGED <<taskState, chordTriggered, purgeCount, amqp, now, failures,
                   chordSends, history, launchVars>>

ProcessStep(w) ==
    \/ ProcessLookup(w)
    \/ ProcessReceived(w)
    \/ ProcessStarted(w)
    \/ ProcessCall(w)
    \/ ProcessRetry(w)
    \/ ProcessSendRetry(w)
    \/ ProcessFailure(w)
    \/ ProcessOnError(w)
    \/ ProcessSuccess(w)
    \/ ProcessOnSuccess(w)
    \/ ProcessGroupCompleted(w)
    \/ ProcessTriggerChord(w)
    \/ ProcessGroupTaskStates(w)
    \/ ProcessSendChord(w)
    \/ ProcessPurgeGroupMeta(w)

\* Before Launch is called.
LaunchIdle ==
    /\ consumeReturns = 0
    /\ consumer = [pc |-> "idle", err |-> Nil, calls |-> 0, retried |-> 0, final |-> 0,
                   sent |-> 0]
    /\ watcher = [pc |-> "idle"]
    /\ quitter = [pc |-> "idle"]
    /\ sigChan = 0
    /\ signalsSent = 0
    /\ signalsReceived = 0
    /\ launch = [pc |-> "idle", ret |-> Nil, inFlight |-> FALSE, stopCalled |-> FALSE,
                 stopReturned |-> FALSE, busyAtSignal |-> FALSE]

\* The broker adapter is consuming; Process is called for what it delivers.
Init ==
    /\ queue \in Workloads
    /\ proc = [w \in Workers |-> IdleProc]
    /\ taskState = <<>>
    /\ chordTriggered = [g \in GroupUUIDs |-> FALSE]
    /\ purgeCount = [g \in GroupUUIDs |-> 0]
    /\ amqp \in BOOLEAN
    /\ now = 0
    /\ failures = 0
    /\ redelivered = 0
    /\ chordSends = <<>>
    /\ history = <<>>
    /\ broker = "consuming"
    /\ LaunchIdle

Next ==
    \/ \E w \in Workers : Deliver(w)
    \/ \E w \in Workers : ProcessStep(w)
    \/ \E w \in Workers : Ack(w)
    \/ \E w \in Workers : Redeliver(w)

Spec == Init /\ [][Next]_vars

(***************************************************************************)
(* Worker.Launch and Worker.LaunchAsync: the consumer goroutine, the       *)
(* signal goroutine, the goroutine the first signal starts, and Launch     *)
(* itself, which returns the first value sent on the unbuffered errorsChan.*)
(* The broker (spec.md 4.7, 5, 6): StartConsuming blocks while delivering  *)
(* and returns once no Process call is in flight; StopConsuming is an      *)
(* idempotent request to stop delivery, which may return before or after   *)
(* consumption has drained.                                                *)
(***************************************************************************)
QuitGracefully == "Worker quit gracefully"

QuitAbruptly == "Worker quit abruptly"

InFlight == {w \in Workers : proc[w].pc # "idle"}

\* Lines 26-31 and 35-92: Launch calls LaunchAsync, which starts the two
\* goroutines and registers sig, and then blocks on errorsChan.
LaunchAsync ==
    /\ launch.pc = "idle"
    /\ launch' = [launch EXCEPT !.pc = "receive"]
    /\ consumer' = [consumer EXCEPT !.pc = "StartConsuming"]
    /\ watcher' = [watcher EXCEPT !.pc = "select"]
    /\ UNCHANGED <<processVars, broker, consumeReturns, quitter, sigChan,
                   signalsSent, signalsReceived>>

\* Line 55: the consumer goroutine calls broker.StartConsuming.
ConsumerStartConsuming ==
    /\ consumer.pc = "StartConsuming"
    /\ consumer' = [consumer EXCEPT !.pc = "consuming", !.calls = @ + 1]
    /\ broker' = IF broker = "idle" THEN "consuming" ELSE broker
    /\ UNCHANGED <<processVars, consumeReturns, watcher, quitter, sigChan,
                   signalsSent, signalsReceived, launch>>

\* Lines 57-62: retry loops, anything else goes to the error channel.
\* consumer.calls, retried, final and sent count the calls of StartConsuming,
\* its returns with and without retry, and the sends on errorsChan.
AfterStartConsumingMutant(retry) == "send"

AfterStartConsuming(retry) == IF retry THEN "StartConsuming" ELSE "send"

\* Lines 55-62: StartConsuming returns because StopConsuming asked it to.
ConsumerStopped ==
    /\ consumer.pc = "consuming"
    /\ broker = "stopping"
    /\ InFlight = {}
    /\ broker' = "stopped"
    /\ consumer' = [consumer EXCEPT !.pc = AfterStartConsuming(FALSE), !.err = Nil,
                                    !.final = @ + 1]
    /\ UNCHANGED <<processVars, consumeReturns, watcher, quitter, sigChan,
                   signalsSent, signalsReceived, launch>>

\* Lines 55-62: StartConsuming returns because consumption died.
ConsumerFailed ==
    /\ consumer.pc = "consuming"
    /\ broker = "consuming"
    /\ InFlight = {}
    /\ consumeReturns < MaxConsumeReturns
    /\ consumeReturns' = consumeReturns + 1
    /\ \E retry \in BOOLEAN :
          /\ broker' = IF retry THEN "idle" ELSE "stopped"
          /\ consumer' = [consumer EXCEPT !.pc = AfterStartConsuming(retry),
                                          !.err = "consume error",
                                          !.retried = @ + (IF retry THEN 1 ELSE 0),
                                          !.final = @ + (IF retry THEN 0 ELSE 1)]
    /\ UNCHANGED <<processVars, watcher, quitter, sigChan, signalsSent,
                   signalsReceived, launch>>

\* Lines 31 and 60: Launch receives what the consumer goroutine sends.
\* launch.inFlight, launch.stopCalled and launch.stopReturned remember whether
\* a Process call was in flight and whether StopConsuming had been called and
\* had returned when Launch returned.
ConsumerSend ==
    /\ consumer.pc = "send"
    /\ launch.pc = "receive"
    /\ launch' = [launch EXCEPT !.pc = "returned", !.ret = consumer.err,
                                !.inFlight = InFlight # {},
                                !.stopCalled = (quitter.pc \notin {"idle", "Quit"}),
                                !.stopReturned = (quitter.pc \in {"send", "done"})]
    /\ consumer' = [consumer EXCEPT !.pc = "done", !.sent = @ + 1]
    /\ UNCHANGED <<processVars, broker, consumeReturns, watcher, quitter,
                   sigChan, signalsSent, signalsReceived>>

\* Lines 66-67: the operating system delivers SIGINT or SIGTERM; Notify
\* drops a signal when the one-slot channel is full.  launch.busyAtSignal
\* remembers whether a Process call was in flight when the first one came.
Signal ==
    /\ launch.pc = "receive"
    /\ signalsSent < MaxSignals
    /\ signalsSent' = signalsSent + 1
    /\ sigChan' = 1
    /\ launch' = [launch EXCEPT !.busyAtSignal = IF signalsSent = 0 THEN InFlight # {} ELSE @]
    /\ UNCHANGED <<processVars, broker, consumeReturns, consumer, watcher,
                   quitter, signalsReceived>>

\* Lines 78-88: the first signal quits gracefully, any later one abruptly.
AfterSignalMutant(received) == "graceful"

AfterSignal(received) == IF received < 2 THEN "graceful" ELSE "abrupt"

\* Lines 72-88: the signal goroutine takes a signal from sig.
WatcherSignal ==
    /\ watcher.pc = "select"
    /\ sigChan = 1
    /\ sigChan' = 0
    /\ signalsReceived' = signalsReceived + 1
    /\ IF AfterSignal(signalsReceived + 1) = "graceful"
       THEN /\ quitter' = [quitter EXCEPT !.pc = "Quit"]
            /\ UNCHANGED watcher
       ELSE /\ watcher' = [watcher EXCEPT !.pc = "send"]
            /\ UNCHANGED quitter
    /\ UNCHANGED <<processVars, broker, consumeReturns, consumer, signalsSent,
                   launch>>

\* Lines 31 and 87: Launch receives "Worker quit abruptly".
WatcherSend ==
    /\ watcher.pc = "send"
    /\ launch.pc = "receive"
    /\ launch' = [launch EXCEPT !.pc = "returned", !.ret = QuitAbruptly,
                                !.inFlight = InFlight # {},
                                !.stopCalled = (quitter.pc \notin {"idle", "Quit"}),
                                !.stopReturned = (quitter.pc \in {"send", "done"})]
    /\ watcher' = [watcher EXCEPT !.pc = "select"]
    /\ UNCHANGED <<processVars, broker, consumeReturns, consumer, quitter,
                   sigChan, signalsSent, signalsReceived>>

\* Lines 82 and 95-97: Quit calls broker.StopConsuming.
QuitterQuit ==
    /\ quitter.pc = "Quit"
    /\ quitter' = [quitter EXCEPT !.pc = "StopConsuming"]
    /\ broker' = IF broker \in {"idle", "consuming"} THEN "stopping" ELSE broker
    /\ UNCHANGED <<processVars, consumeReturns, consumer, watcher, sigChan,
                   signalsSent, signalsReceived, launch>>

\* Lines 82-83: StopConsuming returns, Quit returns.
QuitterStopReturned ==
    /\ quitter.pc = "StopConsuming"
    /\ quitter' = [quitter EXCEPT !.pc = "send"]
    /\ UNCHANGED <<processVars, broker, consumeReturns, consumer, watcher,
                   sigChan, signalsSent, signalsReceived, launch>>

\* Lines 31 and 83: Launch receives "Worker quit gracefully".
QuitterSend ==
    /\ quitter.pc = "send"
    /\ launch.pc = "receive"
    /\ launch' = [launch EXCEPT !.pc = "returned", !.ret = QuitGracefully,
                                !.inFlight = InFlight # {},
                                !.stopCalled = TRUE,
                                !.stopReturned = TRUE]
    /\ quitter' = [quitter EXCEPT !.pc = "done"]
    /\ UNCHANGED <<processVars, broker, consumeReturns, consumer, watcher,
                   sigChan, signalsSent, signalsReceived>>

\* What the broker holds when Launch is called: one task without successors,
\* add, or flaky with at most one retry.
LaunchWorkloads ==
    { SetToBag({Leaf("t1", "add", GoodArgs)}) } \cup
    { SetToBag({Signature("t1", "flaky", <<>>, retryCount, 0, FALSE, <<>>, <<>>)}) :
        retryCount \in {0, 1} }

LaunchInit ==
    /\ queue \in LaunchWorkloads
    /\ proc = [w \in Workers |-> IdleProc]
    /\ taskState = <<>>
    /\ chordTriggered = [g \in GroupUUIDs |-> FALSE]
    /\ purgeCount = [g \in GroupUUIDs |-> 0]
    /\ amqp = FALSE
    /\ now = 0
    /\ failures = 0
    /\ redelivered = 0
    /\ chordSends = <<>>
    /\ history = <<>>
    /\ broker = "idle"
    /\ LaunchIdle

LaunchProcessStep(w) ==
    \/ Deliver(w)
    \/ ProcessLookup(w)
    \/ ProcessReceived(w)
    \/ ProcessStarted(w)
    \/ ProcessCall(w)
    \/ ProcessRetry(w)
    \/ ProcessSendRetry(w)
    \/ ProcessFailure(w)
    \/ ProcessSuccess(w)
    \/ Ack(w)
    \/ Redeliver(w)

LaunchNext ==
    \/ LaunchAsync
    \/ ConsumerStartConsuming
    \/ ConsumerStopped
    \/ ConsumerFailed
    \/ ConsumerSend
    \/ Signal
    \/ WatcherSignal
    \/ WatcherSend
    \/ QuitterQuit
    \/ QuitterStopReturned
    \/ QuitterSend
    \/ \E w \in Workers : LaunchProcessStep(w)

SpecLaunch == LaunchInit /\ [][LaunchNext]_vars

(***************************************************************************)
(* Properties.  A delivery is judged when Process has returned and the     *)
(* broker has not yet taken the goroutine back: proc[w].msg is the message *)
(* as delivered, proc[w].trace every backend and broker call it made.      *)
(***************************************************************************)
Finished(w) == proc[w].pc = "return"

Msg(w) == proc[w].msg[1]

IsWrite(event) == event.kind = "write"

IsSend(event) == event.kind = "send"

IsCall(event) == event.kind = "call"

Writes(w) == SelectSeq(proc[w].trace, IsWrite)

Sends(w) == SelectSeq(proc[w].trace, IsSend)

StatesWritten(w) == [i \in 1..Len(Writes(w)) |-> Writes(w)[i].what]

Called(w) == \E i \in 1..Len(proc[w].trace) : IsCall(proc[w].trace[i])

CallErred(w) ==
    \E i \in 1..Len(proc[w].trace) : IsCall(proc[w].trace[i]) /\ ~proc[w].trace[i].ok

Wrote(w, state) ==
    \E i \in 1..Len(Writes(w)) : Writes(w)[i].what = state /\ Writes(w)[i].ok

SendsOf(w, what) == SelectSeq(Sends(w), LAMBDA event : event.what = what)

ChordSendsOf(group) == {i \in 1..Len(chordSends) : chordSends[i].group = group}

\* C1 as claimed: the chord callback of a group is passed to SendTask at most
\* once, and only in a state where every member's backend state is SUCCESS.
C1_ChordOnceInAllSuccessState ==
    \A group \in GroupUUIDs :
        /\ Cardinality(ChordSendsOf(group)) <= 1
        /\ \A i \in ChordSendsOf(group) : chordSends[i].allSuccess

\* C1 as amended: the chord callback of a group is passed to SendTask at most
\* once, by a Process call of a member of the group, and only after the
\* GroupTaskStates that call read showed SUCCESS for all n members.
C1_ChordOnceAfterAllSuccessRead ==
    \A group \in GroupUUIDs :
        /\ Cardinality(ChordSendsOf(group)) <= 1
        /\ \A i \in ChordSendsOf(group) :
              /\ chordSends[i].by \in GroupMembers(group)
              /\ Len(chordSends[i].taskStates) = GroupSize
              /\ \A k \in 1..GroupSize : chordSends[i].taskStates[k].State = "SUCCESS"
              /\ chordTriggered[group]

\* Two Process calls of the group have both found it completed, and the
\* chord callback has been sent.
C1_Witness ==
    /\ Len(chordSends) = 1
    /\ \A w \in Workers :
          /\ Finished(w)
          /\ Msg(w).GroupUUID = "g1"
          /\ \E i \in 1..Len(proc[w].trace) : proc[w].trace[i].what = "TriggerChord"

\* The message was delivered with RetryCount > 0 and its call erred.
RetryCase(w) == Called(w) /\ CallErred(w) /\ Msg(w).RetryCount > 0

AllWritesOk(w) == \A i \in 1..Len(Writes(w)) : Writes(w)[i].ok

\* C2 as claimed: a delivery that reaches task.Call writes RECEIVED, then
\* STARTED, then a terminal state, SUCCESS or FAILURE (here only for the
\* deliveries none of whose backend writes failed).
C2_ReceivedStartedTerminal ==
    \A w \in Workers :
        (Finished(w) /\ Called(w) /\ AllWritesOk(w)) =>
            /\ Len(Writes(w)) = 3
            /\ StatesWritten(w)[1] = "RECEIVED"
            /\ StatesWritten(w)[2] = "STARTED"
            /\ StatesWritten(w)[3] \in {"SUCCESS", "FAILURE"}

\* C2 as amended: a delivery that reaches task.Call makes three state writes
\* for its UUID, in this order: RECEIVED, STARTED, and then SUCCESS when the
\* call succeeded, RETRY when it erred with RetryCount > 0, FAILURE when it
\* erred with RetryCount = 0.
C2_ReceivedStartedThenOutcome ==
    \A w \in Workers :
        (Finished(w) /\ Called(w)) =>
            /\ Len(Writes(w)) = 3
            /\ StatesWritten(w)[1] = "RECEIVED" /\ Writes(w)[1].ok
            /\ StatesWritten(w)[2] = "STARTED" /\ Writes(w)[2].ok
            /\ StatesWritten(w)[3] =
                  IF ~CallErred(w) THEN "SUCCESS"
                  ELSE IF Msg(w).RetryCount > 0 THEN "RETRY" ELSE "FAILURE"
            /\ \A i \in 1..Len(proc[w].trace) :
                  IsCall(proc[w].trace[i]) =>
                      /\ i = 3
                      /\ IsWrite(proc[w].trace[1]) /\ IsWrite(proc[w].trace[2])
                      /\ IsWrite(proc[w].trace[4])

\* A delivery has written RECEIVED, STARTED and RETRY and has returned.
C2_Witness ==
    \E w \in Workers :
        /\ Finished(w)
        /\ StatesWritten(w) = <<"RECEIVED", "STARTED", "RETRY">>
        /\ \A i \in 1..3 : Writes(w)[i].ok

\* C3: a delivery with RetryCount = 0 whose call errs writes FAILURE (with the
\* error), never writes RETRY and never sends the signature back to the queue.
C3_NoRetryLeftFails ==
    \A w \in Workers :
        (Finished(w) /\ CallErred(w) /\ Msg(w).RetryCount = 0) =>
            /\ StatesWritten(w) = <<"RECEIVED", "STARTED", "FAILURE">>
            /\ SendsOf(w, "Retry") = <<>>
            /\ \A i \in 1..Len(Sends(w)) : Sends(w)[i].sig[1].UUID # Msg(w).UUID
            /\ Writes(w)[3].ok => proc[w].err = "boom"

\* The call of a signature with RetryCount = 0 has erred and FAILURE is written.
C3_Witness ==
    \E w \in Workers :
        /\ Finished(w) /\ CallErred(w) /\ Msg(w).RetryCount = 0
        /\ Wrote(w, "FAILURE")
        /\ proc[w].ret = Nil

\* C4: a delivery with RetryCount > 0 whose call errs and whose RETRY write
\* succeeds passes the same signature to SendTask exactly once, with
\* RetryCount one less, RetryTimeout = FibonacciNext of the old one and an ETA
\* of at least the time before the call plus the new RetryTimeout; it writes
\* no FAILURE and sends no OnError successor.
C4_RetryRepublishes ==
    \A w \in Workers :
        (Finished(w) /\ RetryCase(w) /\ Wrote(w, "RETRY")) =>
            /\ Len(Sends(w)) = 1
            /\ Sends(w)[1].what = "Retry"
            /\ LET sent == Sends(w)[1].sig[1]
                   timeout == FibonacciNext(Msg(w).RetryTimeout)
               IN /\ sent.RetryCount = Msg(w).RetryCount - 1
                  /\ sent.RetryCount >= 0
                  /\ sent.RetryTimeout = timeout
                  /\ sent.RetryTimeout > Msg(w).RetryTimeout
                  /\ sent.ETA >= proc[w].t0 + timeout
                  /\ [sent EXCEPT !.RetryCount = Msg(w).RetryCount,
                                  !.RetryTimeout = Msg(w).RetryTimeout,
                                  !.ETA = Msg(w).ETA] = Msg(w)
            /\ ~\E i \in 1..Len(Writes(w)) : Writes(w)[i].what = "FAILURE"
            /\ SendsOf(w, "OnError") = <<>>

\* A signature with OnError successors and RetryCount > 0 has been sent back
\* to the queue, and the clock had moved on since it was delivered.
C4_Witness ==
    \E w \in Workers :
        /\ Finished(w) /\ RetryCase(w) /\ Wrote(w, "RETRY")
        /\ Msg(w).OnError # <<>>
        /\ Sends(w)[1].ok
        /\ Sends(w)[1].sig[1].ETA > proc[w].t0 + Sends(w)[1].sig[1].RetryTimeout
        /\ BagIn(Sends(w)[1].sig[1], queue)

BindFailed(w) ==
    IsTaskRegistered(Msg(w).Name) /\ BindError(Msg(w).Name, Msg(w).Args) # ""

\* C5: when tasks.New fails, the delivery writes RECEIVED and then FAILURE,
\* whatever RetryCount is: it writes neither STARTED nor RETRY, never calls
\* the task and never sends the signature back to the queue.
C5_BindErrorFailsWithoutRetry ==
    \A w \in Workers :
        (Finished(w) /\ BindFailed(w) /\ Wrote(w, "RECEIVED")) =>
            /\ StatesWritten(w) = <<"RECEIVED", "FAILURE">>
            /\ ~Called(w)
            /\ SendsOf(w, "Retry") = <<>>
            /\ \A i \in 1..Len(Sends(w)) : Sends(w)[i].sig[1].UUID # Msg(w).UUID
            /\ Wrote(w, "FAILURE") =>
                  StateOf(taskState, Msg(w).UUID).State \in {"FAILURE", "RECEIVED"}

\* A malformed signature with RetryCount > 0 has been recorded as FAILURE.
C5_Witness ==
    \E w \in Workers :
        /\ Finished(w) /\ BindFailed(w) /\ Msg(w).RetryCount > 0
        /\ Wrote(w, "FAILURE")
        /\ StateOf(taskState, Msg(w).UUID).State = "FAILURE"

\* C6: a delivery of a signature whose Name is not registered returns nil
\* and makes no backend call and no publish at all.
C6_UnregisteredIsDropped ==
    \A w \in Workers :
        (proc[w].pc \notin {"idle", "Process"} /\ ~IsTaskRegistered(Msg(w).Name)) =>
            /\ Finished(w)
            /\ proc[w].ret = Nil
            /\ proc[w].trace = <<>>
            /\ Msg(w).UUID \notin DOMAIN taskState

\* The unregistered task with successors and retries has been delivered and
\* Process has returned.
C6_Witness ==
    \E w \in Workers :
        /\ Finished(w) /\ ~IsTaskRegistered(Msg(w).Name)
        /\ Msg(w).OnSuccess # <<>> /\ Msg(w).RetryCount > 0
        /\ taskState = <<>> /\ queue = EmptyBag

\* C7: after a successful call every OnSuccess successor is passed to
\* SendTask, in order, with its own args followed by the parent's results
\* when the parent is not Immutable, and with exactly its own args when it is.
C7_SuccessArgs ==
    \A w \in Workers :
        (Finished(w) /\ Wrote(w, "SUCCESS")) =>
            /\ Len(SendsOf(w, "OnSuccess")) = Len(Msg(w).OnSuccess)
            /\ \A i \in 1..Len(Msg(w).OnSuccess) :
                  LET sent == SendsOf(w, "OnSuccess")[i].sig[1]
                      own == Msg(w).OnSuccess[i]
                  IN /\ [sent EXCEPT !.Args = own.Args] = own
                     /\ Msg(w).Immutable => sent.Args = own.Args
                     /\ ~Msg(w).Immutable => sent.Args = own.Args \o proc[w].results

\* An Immutable parent with results has dispatched its successors.
C7_Witness ==
    \E w \in Workers :
        /\ Finished(w) /\ Wrote(w, "SUCCESS")
        /\ Msg(w).Immutable /\ proc[w].results # <<>>
        /\ Len(SendsOf(w, "OnSuccess")) = 2

\* The error message of the failure of a delivery.
FailureMessage(w) ==
    IF BindFailed(w) THEN BindError(Msg(w).Name, Msg(w).Args) ELSE "boom"

\* C8: when a delivery ends in FAILURE, every OnError successor is passed to
\* SendTask, in order, with the error message as a string first and its own
\* args after it.
C8_ErrorArgs ==
    \A w \in Workers :
        (Finished(w) /\ Wrote(w, "FAILURE")) =>
            /\ Len(SendsOf(w, "OnError")) = Len(Msg(w).OnError)
            /\ \A i \in 1..Len(Msg(w).OnError) :
                  LET sent == SendsOf(w, "OnError")[i].sig[1]
                      own == Msg(w).OnError[i]
                  IN /\ [sent EXCEPT !.Args = own.Args] = own
                     /\ Len(sent.Args) = Len(own.Args) + 1
                     /\ sent.Args[1] = [Type |-> "string", Value |-> FailureMessage(w)]
                     /\ Tail(sent.Args) = own.Args

\* A call error with no retry left has dispatched the OnError successors.
C8_Witness ==
    \E w \in Workers :
        /\ Finished(w) /\ Wrote(w, "FAILURE") /\ CallErred(w)
        /\ Len(SendsOf(w, "OnError")) = 2
        /\ SendsOf(w, "OnError")[1].sig[1].Args =
              <<Arg("string", "boom"), Arg("string", "ctx")>>

\* C9 as claimed: when the first signal arrived while a Process call was in
\* flight and no second signal followed, Launch returns "Worker quit
\* gracefully" (here only for the behaviours in which no backend call
\* failed, consumption never ended unasked, StopConsuming had been called and
\* every Process call had finished when Launch returned).
C9_GracefulAfterDrain ==
    (launch.pc = "returned" /\ launch.busyAtSignal /\ signalsSent = 1
       /\ failures = 0 /\ consumeReturns = 0
       /\ launch.stopCalled /\ ~launch.inFlight) =>
        launch.ret = QuitGracefully

WriteFailedIn(w) ==
    \E i \in 1..Len(proc[w].trace) : IsWrite(proc[w].trace[i]) /\ ~proc[w].trace[i].ok

\* C11: when a backend state write of a delivery fails, Process returns a
\* non-nil error and that write is the last thing the delivery does: no later
\* state write, no call of the task, no publish, no group call.
C11_WriteFailureAborts ==
    \A w \in Workers :
        WriteFailedIn(w) =>
            /\ Finished(w)
            /\ proc[w].ret # Nil
            /\ \A i \in 1..Len(proc[w].trace) :
                  (IsWrite(proc[w].trace[i]) /\ ~proc[w].trace[i].ok) =>
                      i = Len(proc[w].trace)

\* The SUCCESS write of a signature with successors has failed: Process has
\* returned an error and has sent nothing.
C11_Witness ==
    \E w \in Workers :
        /\ Finished(w) /\ WriteFailedIn(w)
        /\ Writes(w)[Len(Writes(w))].what = "SUCCESS"
        /\ Msg(w).OnSuccess # <<>>
        /\ Sends(w) = <<>>
        /\ proc[w].ret # Nil

\* C12 as claimed: a Process call that has recorded FAILURE, after a bind
\* error or after a call error with RetryCount 0, returns nil.
C12_FailureReturnsNil ==
    \A w \in Workers :
        (Finished(w) /\ Wrote(w, "FAILURE")) => proc[w].ret = Nil

IsSuccessorSend(event) == IsSend(event) /\ event.what \in {"OnSuccess", "OnError"}

\* A SendTask of an OnSuccess or OnError successor of the delivery has failed.
SuccessorSendFailed(w) ==
    \E i \in 1..Len(proc[w].trace) :
        IsSuccessorSend(proc[w].trace[i]) /\ ~proc[w].trace[i].ok

\* C13: when SendTask fails for an OnSuccess or OnError successor, the
\* terminal state the delivery wrote stays as written (it is the delivery's
\* last write and the row still holds it), every successor is still passed to
\* SendTask, and Process returns what it returns without the publish failure:
\* nil, or the bind error after a bind error.
C13_SuccessorSendFailureIsSwallowed ==
    \A w \in Workers :
        (Finished(w) /\ SuccessorSendFailed(w)) =>
            LET last == Writes(w)[Len(Writes(w))]
            IN /\ last.what \in {"SUCCESS", "FAILURE"} /\ last.ok
               /\ StateOf(taskState, Msg(w).UUID).State = last.what
               /\ last.what = "SUCCESS" =>
                     /\ Len(SendsOf(w, "OnSuccess")) = Len(Msg(w).OnSuccess)
                     /\ StateOf(taskState, Msg(w).UUID).Results = proc[w].results
               /\ last.what = "FAILURE" =>
                     /\ Len(SendsOf(w, "OnError")) = Len(Msg(w).OnError)
                     /\ StateOf(taskState, Msg(w).UUID).Error = FailureMessage(w)
               /\ proc[w].ret =
                     IF BindFailed(w) THEN BindError(Msg(w).Name, Msg(w).Args) ELSE Nil

\* The first OnSuccess successor could not be published, the second one was,
\* and Process has returned nil.
C13_Witness ==
    \E w \in Workers :
        /\ Finished(w) /\ Wrote(w, "SUCCESS")
        /\ Len(SendsOf(w, "OnSuccess")) = 2
        /\ ~SendsOf(w, "OnSuccess")[1].ok
        /\ SendsOf(w, "OnSuccess")[2].ok
        /\ proc[w].ret = Nil
        /\ StateOf(taskState, Msg(w).UUID).State = "SUCCESS"

\* No Process call for a member of the group is running or still to come.
GroupQuiet(group) ==
    /\ \A w \in Workers : proc[w].pc \in {"idle", "return"}
    /\ \A sig \in BagToSet(queue) : sig.GroupUUID # group
    /\ \A w \in Workers : proc[w].pc = "return" => proc[w].ret = Nil

GroupTerminal(group) ==
    \A u \in GroupMembers(group) : IsCompleted(StateOf(taskState, u))

\* C14 as claimed: with the AMQP backend, PurgeGroupMeta is never called twice
\* for a group, and once all members of the group are in a terminal state and
\* no Process call for it is left, it has been called exactly once.
C14_PurgeExactlyOnce ==
    \A group \in GroupUUIDs :
        amqp =>
            /\ purgeCount[group] <= 1
            /\ (GroupTerminal(group) /\ GroupQuiet(group)) => purgeCount[group] = 1

\* A step of Process in which no backend or publish call fails.
QuietStep(w) == ProcessStep(w) /\ failures' = failures

NextNoFailure ==
    \/ \E w \in Workers : Deliver(w)
    \/ \E w \in Workers : QuietStep(w)
    \/ \E w \in Workers : Ack(w)
    \/ \E w \in Workers : Redeliver(w)

\* The behaviours without backend or publish failures, the goroutines of the
\* broker adapter being scheduled fairly: a delivery that can be made is
\* made, a Process call that can take a step takes it, and a call that has
\* returned is acknowledged.
SpecFair ==
    /\ Init
    /\ [][NextNoFailure]_vars
    /\ \A w \in Workers :
          /\ WF_vars(Deliver(w))
          /\ WF_vars(QuietStep(w))
          /\ WF_vars(Ack(w))

\* Every queued signature is a group member with a chord callback.
ChordWorkload == \A sig \in BagToSet(queue) : sig.ChordCallback # <<>>

MemberFailed ==
    \E i \in 1..Len(history) :
        history[i].kind = "callError" /\ history[i].uuid \in GroupMembers("g1")

\* C15: when every member of a group carries the chord callback and no
\* backend or publish call fails, then unless a member's call errs the chord
\* callback is eventually passed to SendTask, by a Process call that got true
\* from TriggerChord, and never more than once.
C15_ChordEventuallyOnce ==
    ChordWorkload =>
        /\ <>(MemberFailed \/ (Len(chordSends) = 1 /\ chordTriggered["g1"]))
        /\ [](Len(chordSends) <= 1)

\* Both members have succeeded without any failure, both Process calls have
\* called TriggerChord, and the chord callback has been sent once.
C15_Witness ==
    /\ failures = 0 /\ ~MemberFailed
    /\ Len(chordSends) = 1
    /\ chordSends[1].allSuccess
    /\ chordTriggered["g1"]
    /\ \A w \in Workers :
          \E i \in 1..Len(proc[w].trace) : proc[w].trace[i].what = "TriggerChord"

(***************************************************************************)
(* Redelivery (spec.md 4.3 and 7): the broker delivers a signature again   *)
(* every time Process returned an error for it, and acknowledges it when   *)
(* Process returned nil.                                                   *)
(***************************************************************************)
Requeue(w) ==
    /\ proc[w].pc = "return"
    /\ proc[w].ret # Nil
    /\ queue' = queue (+) SetToBag({proc[w].msg[1]})
    /\ proc' = [proc EXCEPT ![w] = IdleProc]
    /\ UNCHANGED <<taskState, chordTriggered, purgeCount, amqp, now, failures,
                   redelivered, chordSends, history, launchVars>>

AckNil(w) ==
    /\ proc[w].pc = "return"
    /\ proc[w].ret = Nil
    /\ proc' = [proc EXCEPT ![w] = IdleProc]
    /\ UNCHANGED <<queue, taskState, chordTriggered, purgeCount, amqp, now,
                   failures, redelivered, chordSends, history, launchVars>>

\* One signature without successors: add with good or bad args, or flaky.
RedeliverWorkloads ==
    { SetToBag({Signature("t1", "add", args, retryCount, 0, FALSE, <<>>, <<>>)}) :
        args \in {GoodArgs, BadArgs}, retryCount \in 0..MaxRetry }
    \cup
    { SetToBag({Signature("t1", "flaky", <<>>, retryCount, 0, FALSE, <<>>, <<>>)}) :
        retryCount \in 0..MaxRetry }

RedeliverInit ==
    /\ queue \in RedeliverWorkloads
    /\ proc = [w \in Workers |-> IdleProc]
    /\ taskState = <<>>
    /\ chordTriggered = [g \in GroupUUIDs |-> FALSE]
    /\ purgeCount = [g \in GroupUUIDs |-> 0]
    /\ amqp = FALSE
    /\ now = 0
    /\ failures = 0
    /\ redelivered = 0
    /\ chordSends = <<>>
    /\ history = <<>>
    /\ broker = "consuming"
    /\ LaunchIdle

RedeliverProcessStep(w) ==
    \/ ProcessLookup(w)
    \/ ProcessReceived(w)
    \/ ProcessStarted(w)
    \/ ProcessCall(w)
    \/ ProcessRetry(w)
    \/ ProcessSendRetry(w)
    \/ ProcessFailure(w)
    \/ ProcessSuccess(w)

RedeliverNext ==
    \/ \E w \in Workers : Deliver(w)
    \/ \E w \in Workers : RedeliverProcessStep(w)
    \/ \E w \in Workers : AckNil(w)
    \/ \E w \in Workers : Requeue(w)

SpecRedeliver ==
    /\ RedeliverInit
    /\ [][RedeliverNext]_vars
    /\ \A w \in Workers :
          /\ WF_vars(Deliver(w))
          /\ WF_vars(RedeliverProcessStep(w))
          /\ WF_vars(AckNil(w))
          /\ WF_vars(Requeue(w))

\* A delivery has been aborted by a failed backend state write.
Aborted == \E w \in Workers : Finished(w) /\ WriteFailedIn(w)

\* C16 as claimed: once a delivery has been aborted by a backend write error,
\* the broker redelivering, the row of the UUID eventually holds a terminal
\* state, SUCCESS or FAILURE, and keeps it.
C16_RedeliveryEndsTerminal ==
    [](Aborted => <>[]IsCompleted(StateOf(taskState, "t1")))

\* C17: the consumer loop calls StartConsuming once more after every return
\* with retry = true and sends nothing for it; after the first return with
\* retry = false it goes to the send of that err on the error channel, sends
\* it once at most, and never calls StartConsuming again.
C17_ConsumerLoop ==
    /\ consumer.pc \in {"idle", "StartConsuming"} =>
          consumer.calls = consumer.retried /\ consumer.final = 0
    /\ consumer.pc = "consuming" =>
          consumer.calls = consumer.retried + 1 /\ consumer.final = 0
    /\ consumer.pc \in {"send", "done"} =>
          consumer.calls = consumer.retried + 1 /\ consumer.final = 1
    /\ consumer.sent = (IF consumer.pc = "done" THEN 1 ELSE 0)
    /\ consumer.pc = "done" => (launch.pc = "returned" /\ launch.ret = consumer.err)

\* StartConsuming has returned with retry = true once, has been called again,
\* has then returned with retry = false, and Launch has received its err.
C17_Witness ==
    /\ consumer.retried = 1 /\ consumer.calls = 2 /\ consumer.final = 1
    /\ consumer.pc = "done" /\ consumer.sent = 1
    /\ launch.pc = "returned" /\ launch.ret = consumer.err

PastOf(kind, uuid) ==
    SelectSeq(history, LAMBDA past : past.kind = kind /\ past.uuid = uuid)

\* The RetryCount of the deliveries of uuid whose call erred, in order.
CallErrors(uuid) ==
    [i \in 1..Len(PastOf("callError", uuid)) |-> PastOf("callError", uuid)[i].count]

\* The RetryCount of the republished signatures of uuid, in order.
Republishes(uuid) ==
    [i \in 1..Len(PastOf("republish", uuid)) |-> PastOf("republish", uuid)[i].count]

\* C18: a signature whose call first errs with RetryCount = k is republished
\* with RetryCount k-1, ..., 0 and never more than k times, RetryCount never
\* goes below 0, and the delivery whose call errs with RetryCount 0 records
\* FAILURE after exactly k republishes and republishes nothing; when no
\* backend or publish call failed that delivery is the (k+1)-th.
C18_RetriesRunOut ==
    /\ \A i \in 1..Len(history) : history[i].count >= 0
    /\ \A sig \in BagToSet(queue) : sig.RetryCount >= 0
    /\ \A w \in Workers :
          (proc[w].pc # "idle" /\ CallErrors(Msg(w).UUID) # <<>>) =>
              LET k == CallErrors(Msg(w).UUID)[1]
                  sends == Republishes(Msg(w).UUID)
                  calls == CallErrors(Msg(w).UUID)
              IN /\ Len(sends) <= k
                 /\ \A i \in 1..Len(sends) : sends[i] = k - i
                 /\ (Finished(w) /\ CallErred(w) /\ Wrote(w, "FAILURE")) =>
                       /\ Msg(w).RetryCount = 0
                       /\ Len(sends) = k
                       /\ SendsOf(w, "Retry") = <<>>
                       /\ failures = 0 =>
                             /\ Len(calls) = k + 1
                             /\ \A i \in 1..Len(calls) : calls[i] = k + 1 - i

\* A signature delivered with retries left has erred on every delivery, has
\* been republished down to RetryCount 0 and has then been recorded as FAILURE.
C18_Witness ==
    \E w \in Workers :
        /\ Finished(w) /\ CallErred(w) /\ Wrote(w, "FAILURE")
        /\ failures = 0
        /\ Len(Republishes(Msg(w).UUID)) >= 1
        /\ Len(CallErrors(Msg(w).UUID)) = Len(Republishes(Msg(w).UUID)) + 1
        /\ Msg(w).RetryCount = 0

\* The GroupTaskStates call of the delivery of goroutine w has failed.
GroupTaskStatesFailed(w) ==
    \E i \in 1..Len(proc[w].trace) :
        proc[w].trace[i].what = "GroupTaskStates" /\ ~proc[w].trace[i].ok

ChordLost(group) ==
    \E i \in 1..Len(history) : history[i].kind = "chordLost" /\ history[i].uuid = group

\* C19: when GroupTaskStates fails after TriggerChord answered true, Process
\* does not send the chord callback and returns nil; the ChordTriggered flag
\* stays set and no Process call for the group sends the chord callback, then
\* or later.
C19_LostChordIsNeverSent ==
    /\ \A w \in Workers :
          GroupTaskStatesFailed(w) =>
              /\ proc[w].pc \in {"PurgeGroupMeta", "return"}
              /\ proc[w].ret = Nil
              /\ SendsOf(w, "Chord") = <<>>
              /\ proc[w].trace[Len(proc[w].trace)].what \in {"GroupTaskStates", "PurgeGroupMeta"}
    /\ \A group \in GroupUUIDs :
          ChordLost(group) => (chordTriggered[group] /\ ChordSendsOf(group) = {})

\* One Process call of the group has lost the chord and returned nil, and the
\* other one has asked TriggerChord, got false and returned.
C19_Witness ==
    /\ ChordLost("g1")
    /\ chordSends = <<>>
    /\ \E w \in Workers :
          /\ Finished(w) /\ GroupTaskStatesFailed(w) /\ proc[w].ret = Nil
          /\ \E v \in Workers \ {w} :
                /\ Finished(v) /\ ~GroupTaskStatesFailed(v)
                /\ proc[v].trace[Len(proc[v].trace)].what \in {"TriggerChord", "PurgeGroupMeta"}
                /\ \E i \in 1..Len(proc[v].trace) : proc[v].trace[i].what = "TriggerChord"

\* The state a publish depends on.
StateBefore(what) ==
    CASE what = "OnSuccess" -> "SUCCESS"
      [] what = "Chord" -> "SUCCESS"
      [] what = "OnError" -> "FAILURE"
      [] what = "Retry" -> "RETRY"

\* C20: within one Process call every publish comes after the successful
\* write of the state it depends on (SUCCESS for an OnSuccess successor and
\* for the chord callback, FAILURE for an OnError successor, RETRY for the
\* republished signature), which is the last state write of the call; a call
\* one of whose state writes failed publishes nothing.
C20_WriteBeforePublish ==
    \A w \in Workers :
        /\ \A i \in 1..Len(proc[w].trace) :
              IsSend(proc[w].trace[i]) =>
                  \E j \in 1..(i - 1) :
                      /\ IsWrite(proc[w].trace[j])
                      /\ proc[w].trace[j].ok
                      /\ proc[w].trace[j].what = StateBefore(proc[w].trace[i].what)
                      /\ \A n \in (j + 1)..Len(proc[w].trace) : ~IsWrite(proc[w].trace[n])
        /\ WriteFailedIn(w) => Sends(w) = <<>>

\* A group member has written SUCCESS and has then sent the chord callback.
C20_Witness ==
    \E w \in Workers :
        /\ Finished(w)
        /\ Len(SendsOf(w, "Chord")) = 1
        /\ Writes(w)[3].what = "SUCCESS" /\ Writes(w)[3].ok
        /\ proc[w].trace[4] = Writes(w)[3]

====
